---- MODULE Spec2Model ----
(***************************************************************************)
(* reobject: Manager, RelatedManager and the two access descriptors of     *)
(* reobject/models/manager.py, over the per-model object store             *)
(* (ModelStoreMapping) and the QuerySet they delegate to.                  *)
(***************************************************************************)
EXTENDS Integers, Sequences, FiniteSets, TLC

-----------------------------------------------------------------------------
(* Bounds of the model *)

\* model instances constructed in one run
MaxObjs == 2
\* entries in one model's collection
MaxLen == 3
\* readings of the UTC clock
MaxTime == 2
\* Manager / RelatedManager objects constructed in one run
MaxManagers == 3
\* QuerySet objects kept by a caller in one run
MaxQueries == 1
\* successful appends to one collection since it was last empty by _clear
MaxAdds == 4
\* entries in the collection that kept QuerySets read
MaxQueryLen == 1
\* entries in one collection, in the specifications that enumerate owners,
\* kept queries or keyword arguments
MaxShortLen == 2
\* model instances constructed in one run of the specification of insertion
\* order
MaxOrderObjs == 3

-----------------------------------------------------------------------------
(* The world the managers are used in: model classes, owners, attributes *)

\* Python's None as an object reference (heap index 0 is no object)
None == 0
\* Python's None as an attribute value
NoValue == "None"

\* Model classes, by qualified name.  models.Novel subclasses models.Book and
\* inherits its `objects` attribute; other.Book is a different class that has
\* the same __name__ as models.Book.
ModelTypes == {"models.Book", "models.Novel", "other.Book"}

\* type.__name__
TypeName(t) ==
    CASE t = "models.Book" -> "Book"
      [] t = "models.Novel" -> "Novel"
      [] t = "other.Book" -> "Book"
      [] t = "models.Author" -> "Author"
      [] t = "models.Editor" -> "Editor"
      [] OTHER -> ""

\* str.lower() on the type names in use
Lower(s) ==
    CASE s = "Author" -> "author"
      [] s = "Editor" -> "editor"
      [] s = "Book" -> "book"
      [] s = "Novel" -> "novel"
      [] OTHER -> s

\* The ManagerDescriptor objects: one is the `objects` attribute of
\* models.Book, one of other.Book.
ManagerDescriptors == {"models.Book.objects", "other.Book.objects"}

\* Attribute lookup `cls.objects`: the descriptor a model class reaches.
DescriptorOf(t) ==
    IF t = "other.Book" THEN "other.Book.objects" ELSE "models.Book.objects"

\* The RelatedManagerDescriptor objects, attributes of the owner classes.
RelatedDescriptors == {"models.Author.books", "models.Editor.books"}

\* The class a RelatedManagerDescriptor is an attribute of.
RelatedOwnerType(d) ==
    IF d = "models.Author.books" THEN "models.Author" ELSE "models.Editor"

\* Owner instances (the objects a RelatedManager is obtained from).
Owners ==
    { [type |-> "models.Author", pk |-> "p1"],
      [type |-> "models.Author", pk |-> "p2"],
      [type |-> "models.Editor", pk |-> "p3"] }

\* No owner: the closure variable `instance` does not exist for a Manager.
NoOwner == [type |-> "", pk |-> NoValue]

\* Values of the `name` attribute
Names == {"a", "b"}

\* Attributes a model instance is constructed with: its name and, per owner
\* class, the pk of the owner its foreign key points to (NoValue: none).
ObjAttrs ==
    { [name |-> "a", author |-> "p1", editor |-> NoValue],
      [name |-> "a", author |-> "p2", editor |-> NoValue],
      [name |-> "b", author |-> "p1", editor |-> "p3"],
      [name |-> "b", author |-> NoValue, editor |-> NoValue] }

\* Keys of ModelStoreMapping: the __name__ of every model class
StoreKeys == {TypeName(t) : t \in ModelTypes}

-----------------------------------------------------------------------------
(* State *)

VARIABLES
    objs,           \* heap of model instances: attributes, created, updated
    store,          \* ModelStoreMapping: __name__ -> ordered collection
    now,            \* the value datetime.utcnow() returns
    managers,       \* heap of Manager / RelatedManager objects
    descManager,    \* ManagerDescriptor.manager, per descriptor
    relDescModel,   \* RelatedManagerDescriptor.model, per descriptor
    queries,        \* QuerySet objects a caller holds, each with the content
                    \* its collection had when the manager returned it
    adds,           \* per collection: appends since it was last cleared
    deletes,        \* per collection: removals since it was last cleared
    ret             \* the last call: operation, receiver, arguments, outcome

vars == <<objs, store, now, managers, descManager, relDescModel, queries,
          adds, deletes, ret>>

\* Identities of the constructed model instances
ObjIds == 1..Len(objs)

\* Identities of the constructed managers
ManagerIds == 1..Len(managers)

\* No keyword arguments
NoKw == [k \in {} |-> NoValue]

\* No QuerySet
NoQuery ==
    [key |-> "", live |-> FALSE, items |-> <<>>, model |-> "", filters |-> <<>>]

\* The record of a call that has not happened
NoCall ==
    [op |-> "", mgr |-> None, desc |-> "", owner |-> NoOwner, cls |-> "",
     obj |-> None, kw |-> NoKw, dflt |-> NoKw, query |-> None,
     exc |-> "", val |-> None, flag |-> FALSE, qs |-> NoQuery,
     items |-> <<>>]

-----------------------------------------------------------------------------
(* Sequence helpers (Python list operations) *)

\* Index of the first entry of s that is x, 0 when there is none
RECURSIVE IndexFrom(_, _, _)
IndexFrom(s, x, i) ==
    IF i > Len(s) THEN 0
    ELSE IF s[i] = x THEN i
    ELSE IndexFrom(s, x, i + 1)

\* list.index, 0 for ValueError
IndexOf(s, x) == IndexFrom(s, x, 1)

\* s without its i-th entry
RemoveAt(s, i) == [j \in 1..(Len(s) - 1) |-> IF j < i THEN s[j] ELSE s[j + 1]]

\* The entries of s as a set
Range(s) == {s[i] : i \in 1..Len(s)}

-----------------------------------------------------------------------------
(* ModelStoreMapping and QuerySet (reobject.models.store, reobject.query) *)

\* ModelStoreMapping.get(name): the collection kept for a model name; it is
\* created empty on first access, so every key always has a collection.
ModelStoreMapping_get(key) == store[key]

\* Attribute lookup of a keyword of filter/exclude/get on an instance:
\* a plain field name, or <field>__pk for the pk of the related object.
Lookup(o, key) ==
    CASE key = "name" -> o.name
      [] key = "author__pk" -> o.author
      [] key = "editor__pk" -> o.editor
      [] OTHER -> NoValue

\* Whether instance o satisfies every keyword of kw
Matches(o, kw) == \A k \in DOMAIN kw : Lookup(o, k) = kw[k]

\* QuerySet(store, model): a query over a collection, with no predicate yet.
\* It refers to the collection (live), it does not copy it.
QuerySet(key, model) ==
    [key |-> key, live |-> TRUE, items |-> <<>>, model |-> model,
     filters |-> <<>>]

\* QuerySet.filter(**kw): a new query, narrowed to the instances matching kw
QuerySet_filter(q, kw) ==
    [q EXCEPT !.filters = Append(@, [neg |-> FALSE, kw |-> kw])]

\* QuerySet.exclude(**kw): a new query, without the instances matching kw
QuerySet_exclude(q, kw) ==
    [q EXCEPT !.filters = Append(@, [neg |-> TRUE, kw |-> kw])]

\* The collection a query reads when it is evaluated
Source(q) == IF q.live THEN ModelStoreMapping_get(q.key) ELSE q.items

\* Whether the instance with identity i passes every predicate of q
Passes(q, i) ==
    \A n \in 1..Len(q.filters) :
        Matches(objs[i], q.filters[n].kw) # q.filters[n].neg

\* Iteration of a query: the matching instances, in collection order
Evaluate(q) == SelectSeq(Source(q), LAMBDA i : Passes(q, i))

\* QuerySet.count
QuerySet_count(q) == Len(Evaluate(q))

\* QuerySet.get(**kw): the single match, or the error raised
QuerySet_get(q, kw) ==
    LET found == Evaluate(QuerySet_filter(q, kw))
    IN  IF Len(found) = 0 THEN [exc |-> "DoesNotExist", val |-> None]
        ELSE IF Len(found) > 1 THEN [exc |-> "MultipleObjectsReturned", val |-> None]
        ELSE [exc |-> "", val |-> found[1]]

\* The value of a date field of an instance
DateField(o, field) == IF field = "updated" THEN o.updated ELSE o.created

\* QuerySet.earliest(field): the first of the instances with the least value
\* of the field, None when the query is empty
QuerySet_earliest(q, field) ==
    LET found == Evaluate(q)
        least(i) == \A j \in 1..Len(found) :
                        DateField(objs[found[i]], field) <= DateField(objs[found[j]], field)
    IN  IF Len(found) = 0 THEN None
        ELSE found[CHOOSE i \in 1..Len(found) :
                      least(i) /\ \A j \in 1..(i - 1) : ~least(j)]

\* QuerySet.latest(field): the last of the instances with the greatest value
\* of the field, None when the query is empty
QuerySet_latest(q, field) ==
    LET found == Evaluate(q)
        greatest(i) == \A j \in 1..Len(found) :
                        DateField(objs[found[i]], field) >= DateField(objs[found[j]], field)
    IN  IF Len(found) = 0 THEN None
        ELSE found[CHOOSE i \in 1..Len(found) :
                      greatest(i) /\ \A j \in (i + 1)..Len(found) : ~greatest(j)]

\* QuerySet.random: the instances it may return ({None} when the query is empty)
QuerySet_random(q) ==
    IF Len(Evaluate(q)) = 0 THEN {None} ELSE Range(Evaluate(q))

\* EmptyQuerySet(model): a query that has no collection and no instance
EmptyQuerySet(model) ==
    [key |-> "", live |-> FALSE, items |-> <<>>, model |-> model,
     filters |-> <<>>]

-----------------------------------------------------------------------------
(* Manager and RelatedManager: the methods that only read *)

\* Whether manager m is a RelatedManager (built by the instance-only descriptor)
IsRelated(m) == managers[m].owner # NoOwner

\* store that is one collection for every model: not keyed by __name__
StoreKey_of_all(m) == "Book"

\* Manager.store as a reference: the key of the collection of self.model
StoreKey(m) == TypeName(managers[m].model)

\* Manager.store: the collection itself
Manager_store(m) == ModelStoreMapping_get(StoreKey(m))

\* get_queryset that hands the QuerySet a copy of the collection
Manager_get_queryset_copy(m) ==
    [QuerySet(StoreKey(m), managers[m].model) EXCEPT
        !.live = FALSE, !.items = Manager_store(m)]

\* Manager.get_queryset
Manager_get_queryset(m) == QuerySet(StoreKey(m), managers[m].model)

\* The keyword RelatedManager.get_queryset filters by, for the owner `instance`
FkKey(instance) == Lower(TypeName(instance.type)) \o "__pk"

\* RelatedManager.get_queryset
RelatedManager_get_queryset(m) ==
    LET instance == managers[m].owner
    IN  QuerySet_filter(Manager_get_queryset(m),
                        [k \in {FkKey(instance)} |-> instance.pk])

\* get_queryset that RelatedManager does not override
get_queryset_unscoped(m) == Manager_get_queryset(m)

\* self.get_queryset(), by the class of the manager
get_queryset(m) ==
    IF IsRelated(m) THEN RelatedManager_get_queryset(m)
    ELSE Manager_get_queryset(m)

\* Manager.all
all(m) == get_queryset(m)

\* Manager.count
count(m) == QuerySet_count(all(m))

\* Manager.filter
filter(m, kw) == QuerySet_filter(all(m), kw)

\* Manager.exclude
exclude(m, kw) == QuerySet_exclude(all(m), kw)

\* get that takes the first match: self.all().filter(**kwargs).first()
get_first_match(m, kw) ==
    [exc |-> "", val |-> QuerySet_earliest(filter(m, kw), "created")]

\* Manager.get
get(m, kw) == QuerySet_get(all(m), kw)

\* Manager.earliest
earliest(m, field) == QuerySet_earliest(all(m), field)

\* Manager.latest
latest(m, field) == QuerySet_latest(all(m), field)

\* Manager.first
first(m) == QuerySet_earliest(all(m), "created")

\* last that asks for the earliest instance: self.all().earliest()
last_is_earliest(m) == QuerySet_earliest(all(m), "created")

\* Manager.last
last(m) == QuerySet_latest(all(m), "created")

\* Manager.random: the instances it may return
random(m) == QuerySet_random(all(m))

\* none that returns the query over the collection: self.all()
none_is_all(m) == all(m)

\* Manager.none
none(m) == EmptyQuerySet(managers[m].model)

-----------------------------------------------------------------------------
(* Initial state and the environment *)

Init ==
    /\ objs = <<>>
    /\ store = [k \in StoreKeys |-> <<>>]
    /\ now = 1
    /\ managers = <<>>
    /\ descManager = [d \in ManagerDescriptors |-> None]
    /\ relDescModel = [d \in RelatedDescriptors |-> "models.Book"]
    /\ queries = <<>>
    /\ adds = [k \in StoreKeys |-> 0]
    /\ deletes = [k \in StoreKeys |-> 0]
    /\ ret = NoCall

\* A caller constructs a model instance with attributes a; it is in no
\* collection yet and carries no timestamps.
ConstructWithin(a, max) ==
    /\ Len(objs) < max
    /\ objs' = Append(objs, [name |-> a.name, author |-> a.author,
                             editor |-> a.editor, created |-> 0, updated |-> 0])
    /\ ret' = [NoCall EXCEPT !.op = "construct", !.val = Len(objs) + 1]
    /\ UNCHANGED <<store, now, managers, descManager, relDescModel, queries>>

\* The same, in the specifications that bound the instances by MaxObjs
Construct(a) == ConstructWithin(a, MaxObjs)

\* The UTC clock advances between two calls.
Tick ==
    /\ now < MaxTime
    /\ now' = now + 1
    /\ ret' = [NoCall EXCEPT !.op = "tick"]
    /\ UNCHANGED <<objs, store, managers, descManager, relDescModel, queries>>

-----------------------------------------------------------------------------
(* The access descriptors *)

\* __get__ that caches nothing: a new Manager on every access via the class
ManagerDescriptor__get__uncached(d, instance, owner) ==
    /\ DescriptorOf(owner) = d
    /\ IF instance # None
       THEN /\ ret' = [NoCall EXCEPT !.op = "ManagerDescriptor.__get__",
                          !.desc = d, !.obj = instance, !.cls = owner,
                          !.exc = "AttributeError"]
            /\ UNCHANGED <<managers, descManager>>
       ELSE /\ Len(managers) < MaxManagers
            /\ managers' = Append(managers, [model |-> owner, owner |-> NoOwner])
            /\ descManager' = [descManager EXCEPT ![d] = Len(managers) + 1]
            /\ ret' = [NoCall EXCEPT !.op = "ManagerDescriptor.__get__",
                          !.desc = d, !.cls = owner, !.val = Len(managers) + 1]
    /\ UNCHANGED <<objs, store, now, relDescModel, queries>>

\* ManagerDescriptor.__get__(instance, owner) on descriptor d.
\* instance is None for access via the class `owner`.
ManagerDescriptor__get__(d, instance, owner) ==
    /\ DescriptorOf(owner) = d
    /\ IF instance # None
       THEN /\ ret' = [NoCall EXCEPT !.op = "ManagerDescriptor.__get__",
                          !.desc = d, !.obj = instance, !.cls = owner,
                          !.exc = "AttributeError"]
            /\ UNCHANGED <<managers, descManager>>
       ELSE IF descManager[d] = None
       THEN /\ Len(managers) < MaxManagers
            /\ managers' = Append(managers, [model |-> owner, owner |-> NoOwner])
            /\ descManager' = [descManager EXCEPT ![d] = Len(managers) + 1]
            /\ ret' = [NoCall EXCEPT !.op = "ManagerDescriptor.__get__",
                          !.desc = d, !.cls = owner, !.val = Len(managers) + 1]
       ELSE /\ ret' = [NoCall EXCEPT !.op = "ManagerDescriptor.__get__",
                          !.desc = d, !.cls = owner, !.val = descManager[d]]
            /\ UNCHANGED <<managers, descManager>>
    /\ UNCHANGED <<objs, store, now, relDescModel, queries>>

\* __get__ that hands out again a RelatedManager it built for the same instance
RelatedManagerDescriptor__get__cached(d, instance, owner) ==
    /\ RelatedOwnerType(d) = owner
    /\ IF instance = NoOwner
       THEN /\ ret' = [NoCall EXCEPT !.op = "RelatedManagerDescriptor.__get__",
                          !.desc = d, !.cls = owner, !.exc = "AttributeError"]
            /\ UNCHANGED managers
       ELSE IF \E m \in ManagerIds : managers[m].owner = instance
       THEN /\ ret' = [NoCall EXCEPT !.op = "RelatedManagerDescriptor.__get__",
                          !.desc = d, !.cls = owner, !.owner = instance,
                          !.val = CHOOSE m \in ManagerIds :
                                      managers[m].owner = instance]
            /\ UNCHANGED managers
       ELSE /\ Len(managers) < MaxManagers
            /\ managers' = Append(managers, [model |-> relDescModel[d],
                                             owner |-> instance])
            /\ ret' = [NoCall EXCEPT !.op = "RelatedManagerDescriptor.__get__",
                          !.desc = d, !.cls = owner, !.owner = instance,
                          !.val = Len(managers) + 1]
    /\ UNCHANGED <<objs, store, now, descManager, relDescModel, queries>>

\* RelatedManagerDescriptor.__get__(instance, owner) on descriptor d.
\* instance is NoOwner for access via the class `owner`.
RelatedManagerDescriptor__get__(d, instance, owner) ==
    /\ RelatedOwnerType(d) = owner
    /\ IF instance = NoOwner
       THEN /\ ret' = [NoCall EXCEPT !.op = "RelatedManagerDescriptor.__get__",
                          !.desc = d, !.cls = owner, !.exc = "AttributeError"]
            /\ UNCHANGED managers
       ELSE /\ Len(managers) < MaxManagers
            /\ managers' = Append(managers, [model |-> relDescModel[d],
                                             owner |-> instance])
            /\ ret' = [NoCall EXCEPT !.op = "RelatedManagerDescriptor.__get__",
                          !.desc = d, !.cls = owner, !.owner = instance,
                          !.val = Len(managers) + 1]
    /\ UNCHANGED <<objs, store, now, descManager, relDescModel, queries>>

-----------------------------------------------------------------------------
(* Manager: construction *)

\* Manager(model): Manager.__init__ binds the new Manager to the model class
Manager__init__(model) ==
    /\ Len(managers) < MaxManagers
    /\ managers' = Append(managers, [model |-> model, owner |-> NoOwner])
    /\ ret' = [NoCall EXCEPT !.op = "Manager.__init__", !.cls = model,
                             !.val = Len(managers) + 1]
    /\ UNCHANGED <<objs, store, now, descManager, relDescModel, queries>>

-----------------------------------------------------------------------------
(* Manager: the mutation primitives *)

\* _add that stamps `created` only on an instance that has none yet
_add_created_once(m, instance) ==
    /\ Len(Manager_store(m)) < MaxLen
    /\ objs' = [objs EXCEPT
                    ![instance].created = IF @ = 0 THEN now ELSE @,
                    ![instance].updated = now]
    /\ store' = [store EXCEPT ![StoreKey(m)] = Append(@, instance)]
    /\ ret' = [NoCall EXCEPT !.op = "_add", !.mgr = m, !.obj = instance,
                             !.val = instance]
    /\ UNCHANGED <<now, managers, descManager, relDescModel, queries>>

\* Manager._add(instance)
_add(m, instance) ==
    /\ Len(Manager_store(m)) < MaxLen
    /\ objs' = [objs EXCEPT ![instance].created = now, ![instance].updated = now]
    /\ store' = [store EXCEPT ![StoreKey(m)] = Append(@, instance)]
    /\ ret' = [NoCall EXCEPT !.op = "_add", !.mgr = m, !.obj = instance,
                             !.val = instance]
    /\ UNCHANGED <<now, managers, descManager, relDescModel, queries>>

\* The attributes of the instance QuerySet.get_or_create constructs: the
\* predicates kw, so that the instance matches them, merged with defaults
\* (which name attributes, and here never one that kw names)
Merged(kw, dflt) ==
    LET given(field, key) ==
            IF key \in DOMAIN kw THEN kw[key]
            ELSE IF field \in DOMAIN dflt THEN dflt[field]
            ELSE NoValue
    IN  [name |-> given("name", "name"),
         author |-> given("author", "author__pk"),
         editor |-> given("editor", "editor__pk")]

\* QuerySet.get_or_create(defaults, **kw) on query q, reached from manager m:
\* the instance get(**kw) finds; when it finds none, a new instance, which is
\* stamped and appended to the collection as by _add
QuerySet_get_or_create(q, m, dflt, kw) ==
    LET r == QuerySet_get(q, kw)
        new == Len(objs) + 1
    IN  /\ IF r.exc = "DoesNotExist"
           THEN /\ Len(objs) < MaxObjs
                /\ objs' = Append(objs, [name |-> Merged(kw, dflt).name,
                                         author |-> Merged(kw, dflt).author,
                                         editor |-> Merged(kw, dflt).editor,
                                         created |-> now, updated |-> now])
                /\ store' = [store EXCEPT ![q.key] = Append(@, new)]
                /\ ret' = [NoCall EXCEPT !.op = "get_or_create", !.mgr = m,
                                         !.kw = kw, !.dflt = dflt,
                                         !.val = new, !.flag = TRUE]
           ELSE /\ ret' = [NoCall EXCEPT !.op = "get_or_create", !.mgr = m,
                                         !.kw = kw, !.dflt = dflt,
                                         !.exc = r.exc, !.val = r.val]
                /\ UNCHANGED <<objs, store>>
        /\ UNCHANGED <<now, managers, descManager, relDescModel, queries>>

\* get_or_create that looks in the whole collection: QuerySet(self.store)
\* in place of self.all()
get_or_create_unscoped(m, dflt, kw) ==
    QuerySet_get_or_create(Manager_get_queryset(m), m, dflt, kw)

\* Manager.get_or_create(defaults, **kw)
get_or_create(m, dflt, kw) == QuerySet_get_or_create(all(m), m, dflt, kw)

\* _clear that empties a copy of the collection: self.store.copy().clear()
_clear_a_copy(m) ==
    /\ store' = store
    /\ ret' = [NoCall EXCEPT !.op = "_clear", !.mgr = m]
    /\ UNCHANGED <<objs, now, managers, descManager, relDescModel, queries>>

\* _clear that keeps the last entry: del self.store[:-1]
_clear_keeps_last(m) ==
    /\ store' = [store EXCEPT ![StoreKey(m)] =
                    IF Len(@) = 0 THEN @ ELSE <<@[Len(@)]>>]
    /\ ret' = [NoCall EXCEPT !.op = "_clear", !.mgr = m]
    /\ UNCHANGED <<objs, now, managers, descManager, relDescModel, queries>>

\* _clear that a RelatedManager confines to its owner: it removes the entries
\* its get_queryset yields and keeps the others
_clear_scoped(m) ==
    /\ store' = [store EXCEPT ![StoreKey(m)] =
                    SelectSeq(@, LAMBDA i : ~Passes(get_queryset(m), i))]
    /\ ret' = [NoCall EXCEPT !.op = "_clear", !.mgr = m]
    /\ UNCHANGED <<objs, now, managers, descManager, relDescModel, queries>>

\* Manager._clear()
_clear(m) ==
    /\ store' = [store EXCEPT ![StoreKey(m)] = <<>>]
    /\ ret' = [NoCall EXCEPT !.op = "_clear", !.mgr = m]
    /\ UNCHANGED <<objs, now, managers, descManager, relDescModel, queries>>

\* What == gives on two model instances: object identity when the model class
\* inherits object.__eq__, the field values when it defines __eq__ on them
\* (a record class)
EqualityKinds == {"identity", "fields"}

\* The fields __eq__ of a record class compares
Fields(o) == [name |-> o.name, author |-> o.author, editor |-> o.editor]

\* x == y for instances x and y of a model class with equality of kind eq
Equal(eq, x, y) ==
    \/ x = y
    \/ eq = "fields" /\ Fields(objs[x]) = Fields(objs[y])

\* Index of the first entry of s that is x or compares equal to x, 0 when
\* there is none
RECURSIVE IndexOfEqualFrom(_, _, _, _)
IndexOfEqualFrom(s, x, eq, i) ==
    IF i > Len(s) THEN 0
    ELSE IF Equal(eq, s[i], x) THEN i
    ELSE IndexOfEqualFrom(s, x, eq, i + 1)

\* The entry list.remove(x) removes: the first that is x or equals x
IndexOfEqual(s, x, eq) == IndexOfEqualFrom(s, x, eq, 1)

\* _delete that removes every entry that is obj, not the first one only
_delete_every_entry(m, obj) ==
    /\ IF IndexOf(Manager_store(m), obj) = 0
       THEN /\ ret' = [NoCall EXCEPT !.op = "_delete", !.mgr = m, !.obj = obj,
                                     !.exc = "ValueError"]
            /\ UNCHANGED store
       ELSE /\ store' = [store EXCEPT ![StoreKey(m)] =
                            SelectSeq(@, LAMBDA i : i # obj)]
            /\ ret' = [NoCall EXCEPT !.op = "_delete", !.mgr = m, !.obj = obj]
    /\ UNCHANGED <<objs, now, managers, descManager, relDescModel, queries>>

\* Manager._delete(obj): self.store.remove(obj) removes the first entry that
\* is obj or compares equal to obj, and raises ValueError when there is none
_delete(m, obj) ==
    /\ \E i \in {IndexOfEqual(Manager_store(m), obj, eq) : eq \in EqualityKinds} :
        IF i = 0
        THEN /\ ret' = [NoCall EXCEPT !.op = "_delete", !.mgr = m, !.obj = obj,
                                      !.exc = "ValueError"]
             /\ UNCHANGED store
        ELSE /\ store' = [store EXCEPT ![StoreKey(m)] = RemoveAt(@, i)]
             /\ ret' = [NoCall EXCEPT !.op = "_delete", !.mgr = m, !.obj = obj]
    /\ UNCHANGED <<objs, now, managers, descManager, relDescModel, queries>>

\* A call of Manager.count()
Count(m) ==
    /\ ret' = [NoCall EXCEPT !.op = "count", !.mgr = m, !.val = count(m)]
    /\ UNCHANGED <<objs, store, now, managers, descManager, relDescModel,
                   queries>>

-----------------------------------------------------------------------------
(* Manager: calls of the methods that only read *)

\* Keyword arguments callers pass to filter, exclude and get
KwArgs ==
    { [k \in {"name"} |-> "a"],
      [k \in {"name"} |-> "b"],
      [k \in {"author__pk"} |-> "p1"],
      [k \in {"name", "author__pk"} |-> IF k = "name" THEN "a" ELSE "p2"] }

\* Field names callers pass to earliest and latest
DateFields == {"created", "updated"}

\* The caller gets the QuerySet q from method op of manager m
ReturnQuery(op, m, kw, q) ==
    /\ ret' = [NoCall EXCEPT !.op = op, !.mgr = m, !.kw = kw, !.qs = q]
    /\ UNCHANGED <<objs, store, now, managers, descManager, relDescModel,
                   queries>>

\* The caller keeps the QuerySet it has just been returned
Keep ==
    /\ ret.op \in {"all", "filter", "exclude", "none"}
    /\ Len(queries) < MaxQueries
    /\ queries' = Append(queries, [qs |-> ret.qs,
                                   seen |-> Len(Manager_store(ret.mgr))])
    /\ ret' = [NoCall EXCEPT !.op = "keep", !.query = Len(queries) + 1]
    /\ UNCHANGED <<objs, store, now, managers, descManager, relDescModel>>

\* The caller gets the value or the exception r from method op of manager m
Return(op, m, kw, r) ==
    /\ ret' = [NoCall EXCEPT !.op = op, !.mgr = m, !.kw = kw,
                             !.exc = r.exc, !.val = r.val]
    /\ UNCHANGED <<objs, store, now, managers, descManager, relDescModel,
                   queries>>

\* A call of Manager.all()
All(m) == ReturnQuery("all", m, NoKw, all(m))

\* A call of Manager.filter(**kw)
Filter(m, kw) == ReturnQuery("filter", m, kw, filter(m, kw))

\* A call of Manager.exclude(**kw)
Exclude(m, kw) == ReturnQuery("exclude", m, kw, exclude(m, kw))

\* A call of Manager.none()
NoneQuery(m) == ReturnQuery("none", m, NoKw, none(m))

\* A call of Manager.get(**kw)
Get(m, kw) == Return("get", m, kw, get(m, kw))

\* first that takes the first entry out of the collection: self.store.pop(0)
First_pops(m) ==
    /\ ret' = [NoCall EXCEPT !.op = "first", !.mgr = m, !.val = first(m)]
    /\ store' = [store EXCEPT ![StoreKey(m)] =
                    IF Len(@) = 0 THEN @ ELSE Tail(@)]
    /\ UNCHANGED <<objs, now, managers, descManager, relDescModel, queries>>

\* A call of Manager.first()
First(m) == Return("first", m, NoKw, [exc |-> "", val |-> first(m)])

\* A call of Manager.last()
Last(m) == Return("last", m, NoKw, [exc |-> "", val |-> last(m)])

\* A call of Manager.earliest(field_name)
Earliest(m, field) ==
    Return("earliest", m, [k \in {"field_name"} |-> field],
           [exc |-> "", val |-> earliest(m, field)])

\* A call of Manager.latest(field_name)
Latest(m, field) ==
    Return("latest", m, [k \in {"field_name"} |-> field],
           [exc |-> "", val |-> latest(m, field)])

\* A call of Manager.random()
Random(m) ==
    \E x \in random(m) : Return("random", m, NoKw, [exc |-> "", val |-> x])

\* Manager.__contains__(item): bool(self.get(name=item)); an exception of get
\* propagates, and an instance that get returns is truthy
Manager__contains__(m, item) ==
    LET r == get(m, [k \in {"name"} |-> item])
    IN  /\ ret' = [NoCall EXCEPT !.op = "__contains__", !.mgr = m,
                                 !.kw = [k \in {"name"} |-> item],
                                 !.exc = r.exc, !.flag = (r.exc = "")]
        /\ UNCHANGED <<objs, store, now, managers, descManager, relDescModel,
                   queries>>

\* Any call of a reading method of manager m
Read(m) ==
    \/ Count(m)
    \/ All(m)
    \/ \E kw \in KwArgs : Filter(m, kw)
    \/ \E kw \in KwArgs : Exclude(m, kw)
    \/ \E kw \in KwArgs : Get(m, kw)
    \/ First(m)
    \/ Last(m)
    \/ \E f \in DateFields : Earliest(m, f)
    \/ \E f \in DateFields : Latest(m, f)
    \/ Random(m)

-----------------------------------------------------------------------------
(* Terminal operations on a QuerySet the caller has kept *)

\* Identities of the kept QuerySets
QueryIds == 1..Len(queries)

\* The caller gets the value or the exception r from method op of query q
QueryReturn(op, q, kw, r) ==
    /\ ret' = [NoCall EXCEPT !.op = op, !.query = q, !.kw = kw,
                             !.exc = r.exc, !.val = r.val]
    /\ UNCHANGED <<objs, store, now, managers, descManager, relDescModel,
                   queries>>

\* q.count()
QueryCount(q) ==
    QueryReturn("QuerySet.count", q, NoKw,
                [exc |-> "", val |-> QuerySet_count(queries[q].qs)])

\* q.get(**kw)
QueryGet(q, kw) ==
    QueryReturn("QuerySet.get", q, kw, QuerySet_get(queries[q].qs, kw))

\* q.earliest()
QueryEarliest(q) ==
    QueryReturn("QuerySet.earliest", q, NoKw,
                [exc |-> "", val |-> QuerySet_earliest(queries[q].qs, "created")])

\* list(q)
QueryIterate(q) ==
    /\ ret' = [NoCall EXCEPT !.op = "QuerySet.__iter__", !.query = q,
                             !.items = Evaluate(queries[q].qs)]
    /\ UNCHANGED <<objs, store, now, managers, descManager, relDescModel,
                   queries>>

-----------------------------------------------------------------------------
(* Specifications *)

\* The step's call recorded in the history of the collection it acted on:
\* an append counts as an addition, a removal as a deletion, and _clear
\* starts the history of the emptied collection again.
Recorded ==
    LET acted(k) == ret'.mgr # None /\ k = StoreKey(ret'.mgr) IN
    /\ adds' = [k \in StoreKeys |->
                  IF acted(k) /\ ret'.op = "_clear" THEN 0
                  ELSE IF acted(k) /\ ret'.op = "_add" THEN adds[k] + 1
                  ELSE adds[k]]
    /\ deletes' = [k \in StoreKeys |->
                  IF acted(k) /\ ret'.op = "_clear" THEN 0
                  ELSE IF acted(k) /\ ret'.op = "_delete" /\ ret'.exc = ""
                  THEN deletes[k] + 1
                  ELSE deletes[k]]

\* No history is kept
Unrecorded == UNCHANGED <<adds, deletes>>

\* The collection of one model under _add, _delete, _clear and count
NextStore ==
    \/ /\ \E a \in {b \in ObjAttrs : b.author = "p1"} : Construct(a)
       /\ Recorded
    \/ /\ Tick
       /\ Recorded
    \/ /\ ManagerDescriptor__get__("models.Book.objects", None, "models.Book")
       /\ Recorded
    \/ /\ \E m \in ManagerIds, x \in ObjIds :
             /\ adds[StoreKey(m)] < MaxAdds
             /\ _add(m, x)
       /\ Recorded
    \/ /\ \E m \in ManagerIds, x \in ObjIds : _delete(m, x)
       /\ Recorded
    \/ /\ \E m \in ManagerIds : _clear(m)
       /\ Recorded
    \/ /\ \E m \in ManagerIds : Count(m)
       /\ Recorded

SpecStore == Init /\ [][NextStore]_vars

\* The two descriptors, accessed via classes and via instances
NextDesc ==
    \/ /\ Construct(CHOOSE a \in ObjAttrs : a.name = "a" /\ a.author = "p1")
       /\ Unrecorded
    \/ /\ \E t \in ModelTypes : ManagerDescriptor__get__(DescriptorOf(t), None, t)
       /\ Unrecorded
    \/ /\ \E t \in ModelTypes, x \in ObjIds :
             ManagerDescriptor__get__(DescriptorOf(t), x, t)
       /\ Unrecorded
    \/ /\ \E d \in RelatedDescriptors :
             RelatedManagerDescriptor__get__(d, NoOwner, RelatedOwnerType(d))
       /\ Unrecorded
    \/ /\ \E d \in RelatedDescriptors, o \in Owners :
             RelatedManagerDescriptor__get__(d, o, o.type)
       /\ Unrecorded

SpecDesc == Init /\ [][NextDesc]_vars

\* The RelatedManager of an owner reading a collection that holds instances
\* related to several owners
NextRelated ==
    \/ /\ \E a \in ObjAttrs : Construct(a)
       /\ Unrecorded
    \/ /\ Tick
       /\ Unrecorded
    \/ /\ \E d \in RelatedDescriptors, o \in Owners :
             /\ Len(managers) = 0
             /\ RelatedManagerDescriptor__get__(d, o, o.type)
       /\ Unrecorded
    \/ /\ \E m \in ManagerIds, x \in ObjIds :
             /\ Len(Manager_store(m)) < MaxShortLen
             /\ _add(m, x)
       /\ Unrecorded
    \/ /\ \E m \in ManagerIds : Count(m)
       /\ Unrecorded

SpecRelated == Init /\ [][NextRelated]_vars

\* QuerySets obtained from a Manager, kept while the collection changes, and
\* evaluated afterwards
NextQuery ==
    \/ /\ \E a \in {b \in ObjAttrs : b.author # "p1"} : Construct(a)
       /\ Unrecorded
    \/ /\ ManagerDescriptor__get__("models.Book.objects", None, "models.Book")
       /\ Unrecorded
    \/ /\ \E m \in ManagerIds, x \in ObjIds :
             /\ Len(Manager_store(m)) < MaxQueryLen
             /\ _add(m, x)
       /\ Unrecorded
    \/ /\ \E m \in ManagerIds, x \in ObjIds : _delete(m, x)
       /\ Unrecorded
    \/ /\ \E m \in ManagerIds : All(m)
       /\ Unrecorded
    \/ /\ \E m \in ManagerIds : Filter(m, [k \in {"name"} |-> "a"])
       /\ Unrecorded
    \/ /\ \E m \in ManagerIds : Exclude(m, [k \in {"name"} |-> "a"])
       /\ Unrecorded
    \/ /\ Keep
       /\ Unrecorded
    \/ /\ \E q \in QueryIds : QueryCount(q)
       /\ Unrecorded
    \/ /\ \E q \in QueryIds : QueryGet(q, [k \in {"name"} |-> "b"])
       /\ Unrecorded

SpecQuery == Init /\ [][NextQuery]_vars

\* Keyword arguments and defaults callers pass to get_or_create
CreateArgs ==
    { [kw |-> [k \in {"name"} |-> "a"], dflt |-> NoKw],
      [kw |-> [k \in {"name"} |-> "a"], dflt |-> [k \in {"author"} |-> "p1"]],
      [kw |-> [k \in {"name", "author__pk"} |-> IF k = "name" THEN "a" ELSE "p1"],
       dflt |-> NoKw] }

\* Look-ups by name through a Manager and through the RelatedManager of an
\* owner: get, the membership test and get_or_create
NextLookup ==
    \/ /\ \E a \in {b \in ObjAttrs : b.name = "a"} : Construct(a)
       /\ Unrecorded
    \/ /\ ManagerDescriptor__get__("models.Book.objects", None, "models.Book")
       /\ Unrecorded
    \/ /\ \E o \in {p \in Owners : p.pk = "p1"} :
             /\ \A m \in ManagerIds : ~IsRelated(m)
             /\ RelatedManagerDescriptor__get__("models.Author.books", o, o.type)
       /\ Unrecorded
    \/ /\ \E m \in ManagerIds, x \in ObjIds :
             /\ Len(Manager_store(m)) < MaxShortLen
             /\ _add(m, x)
       /\ Unrecorded
    \/ /\ \E m \in ManagerIds, x \in ObjIds : _delete(m, x)
       /\ Unrecorded
    \/ /\ \E m \in ManagerIds, a \in CreateArgs : get_or_create(m, a.dflt, a.kw)
       /\ Unrecorded
    \/ /\ \E m \in ManagerIds, n \in Names : Get(m, [k \in {"name"} |-> n])
       /\ Unrecorded
    \/ /\ \E m \in ManagerIds, n \in Names : Manager__contains__(m, n)
       /\ Unrecorded

SpecLookup == Init /\ [][NextLookup]_vars

\* The names of the instances constructed one after the other
OrderNames == <<"a", "b", "c", "d">>

\* Instances added one after the other to the collection of one model, at
\* equal and at different readings of the clock, and first, last and count
NextOrder ==
    \/ /\ Len(objs) < Len(OrderNames)
       /\ ConstructWithin([name |-> OrderNames[Len(objs) + 1],
                           author |-> NoValue, editor |-> NoValue],
                          MaxOrderObjs)
       /\ Unrecorded
    \/ /\ Tick
       /\ Unrecorded
    \/ /\ ManagerDescriptor__get__("models.Book.objects", None, "models.Book")
       /\ Unrecorded
    \/ /\ \E m \in ManagerIds, x \in ObjIds : _add(m, x)
       /\ Unrecorded
    \/ /\ \E m \in ManagerIds : First(m)
       /\ Unrecorded
    \/ /\ \E m \in ManagerIds : Last(m)
       /\ Unrecorded
    \/ /\ \E m \in ManagerIds : Count(m)
       /\ Unrecorded

SpecOrder == Init /\ [][NextOrder]_vars

\* The collection of one model populated and emptied again, by _delete and
\* by _clear, and the methods that return one instance
NextEmpty ==
    \/ /\ Construct(CHOOSE a \in ObjAttrs : a.name = "a" /\ a.author = "p1")
       /\ Recorded
    \/ /\ ManagerDescriptor__get__("models.Book.objects", None, "models.Book")
       /\ Recorded
    \/ /\ \E m \in ManagerIds, x \in ObjIds :
             /\ adds[StoreKey(m)] < MaxAdds
             /\ Len(Manager_store(m)) < MaxShortLen
             /\ _add(m, x)
       /\ Recorded
    \/ /\ \E m \in ManagerIds, x \in ObjIds : _delete(m, x)
       /\ Recorded
    \/ /\ \E m \in ManagerIds : _clear(m)
       /\ Recorded
    \/ /\ \E m \in ManagerIds : First(m)
       /\ Recorded
    \/ /\ \E m \in ManagerIds : Last(m)
       /\ Recorded
    \/ /\ \E m \in ManagerIds, f \in DateFields : Earliest(m, f)
       /\ Recorded
    \/ /\ \E m \in ManagerIds, f \in DateFields : Latest(m, f)
       /\ Recorded
    \/ /\ \E m \in ManagerIds : Random(m)
       /\ Recorded

SpecEmpty == Init /\ [][NextEmpty]_vars

\* Every reading method of a Manager and of the RelatedManager of an owner,
\* called on the collections that _add builds
NextRead ==
    \/ /\ \E a \in {b \in ObjAttrs : b.author = "p1"} : Construct(a)
       /\ Unrecorded
    \/ /\ ManagerDescriptor__get__("models.Book.objects", None, "models.Book")
       /\ Unrecorded
    \/ /\ \E o \in {p \in Owners : p.pk = "p1"} :
             /\ \A m \in ManagerIds : ~IsRelated(m)
             /\ RelatedManagerDescriptor__get__("models.Author.books", o, o.type)
       /\ Unrecorded
    \/ /\ \E m \in ManagerIds, x \in ObjIds :
             /\ Len(Manager_store(m)) < MaxShortLen
             /\ _add(m, x)
       /\ Unrecorded
    \/ /\ \E m \in ManagerIds : Count(m)
       /\ Unrecorded
    \/ /\ \E m \in ManagerIds : All(m)
       /\ Unrecorded
    \/ /\ \E m \in ManagerIds : Filter(m, [k \in {"name"} |-> "a"])
       /\ Unrecorded
    \/ /\ \E m \in ManagerIds : Exclude(m, [k \in {"name"} |-> "a"])
       /\ Unrecorded
    \/ /\ \E m \in ManagerIds, n \in Names : Get(m, [k \in {"name"} |-> n])
       /\ Unrecorded
    \/ /\ \E m \in ManagerIds : First(m)
       /\ Unrecorded
    \/ /\ \E m \in ManagerIds : Last(m)
       /\ Unrecorded
    \/ /\ \E m \in ManagerIds, f \in DateFields : Earliest(m, f)
       /\ Unrecorded
    \/ /\ \E m \in ManagerIds, f \in DateFields : Latest(m, f)
       /\ Unrecorded
    \/ /\ \E m \in ManagerIds : Random(m)
       /\ Unrecorded
    \/ /\ \E m \in ManagerIds : NoneQuery(m)
       /\ Unrecorded
    \/ /\ \E m \in ManagerIds, n \in Names : Manager__contains__(m, n)
       /\ Unrecorded

SpecRead == Init /\ [][NextRead]_vars

\* The query none() returns, kept while instances are added, and evaluated
NextNone ==
    \/ /\ \E a \in {b \in ObjAttrs : b.author = "p1"} : Construct(a)
       /\ Unrecorded
    \/ /\ ManagerDescriptor__get__("models.Book.objects", None, "models.Book")
       /\ Unrecorded
    \/ /\ \E m \in ManagerIds, x \in ObjIds :
             /\ Len(Manager_store(m)) < MaxShortLen
             /\ _add(m, x)
       /\ Unrecorded
    \/ /\ \E m \in ManagerIds : NoneQuery(m)
       /\ Unrecorded
    \/ /\ \E m \in ManagerIds : All(m)
       /\ Unrecorded
    \/ /\ Keep
       /\ Unrecorded
    \/ /\ \E q \in QueryIds : QueryIterate(q)
       /\ Unrecorded
    \/ /\ \E q \in QueryIds : QueryCount(q)
       /\ Unrecorded

SpecNone == Init /\ [][NextNone]_vars

\* Several Managers of one model class, one of them cached on the descriptor,
\* over a collection that is filled, cleared and filled again
NextClear ==
    \/ /\ \E a \in {b \in ObjAttrs : b.author = "p1"} : Construct(a)
       /\ Unrecorded
    \/ /\ ManagerDescriptor__get__("models.Book.objects", None, "models.Book")
       /\ Unrecorded
    \/ /\ Manager__init__("models.Book")
       /\ Unrecorded
    \/ /\ \E m \in ManagerIds, x \in ObjIds :
             /\ Len(Manager_store(m)) < MaxShortLen
             /\ _add(m, x)
       /\ Unrecorded
    \/ /\ \E m \in ManagerIds : _clear(m)
       /\ Unrecorded
    \/ /\ \E m \in ManagerIds : Count(m)
       /\ Unrecorded

SpecClear == Init /\ [][NextClear]_vars

\* The model classes in the order in which their Managers are constructed
TypeOrder == <<"models.Book", "other.Book", "models.Novel">>

\* One Manager for each model class, two of the classes having the same
\* __name__, and the mutation primitives through each of them
NextNames ==
    \/ /\ Construct(CHOOSE a \in ObjAttrs : a.name = "a" /\ a.author = "p1")
       /\ Unrecorded
    \/ /\ Len(managers) < Len(TypeOrder)
       /\ Manager__init__(TypeOrder[Len(managers) + 1])
       /\ Unrecorded
    \/ /\ \E m \in ManagerIds, x \in ObjIds :
             /\ Len(Manager_store(m)) < MaxShortLen
             /\ _add(m, x)
       /\ Unrecorded
    \/ /\ \E m \in ManagerIds, x \in ObjIds : _delete(m, x)
       /\ Unrecorded
    \/ /\ \E m \in ManagerIds : _clear(m)
       /\ Unrecorded
    \/ /\ \E m \in ManagerIds : Count(m)
       /\ Unrecorded

SpecNames == Init /\ [][NextNames]_vars

\* The mutation primitives called on the RelatedManager of an owner, over a
\* collection that holds instances related to two owners
NextUnscoped ==
    \/ /\ \E a \in {b \in ObjAttrs : b.name = "a"} : Construct(a)
       /\ Unrecorded
    \/ /\ \E o \in {p \in Owners : p.pk = "p1"} :
             /\ Len(managers) = 0
             /\ RelatedManagerDescriptor__get__("models.Author.books", o, o.type)
       /\ Unrecorded
    \/ /\ \E m \in ManagerIds, x \in ObjIds :
             /\ Len(Manager_store(m)) < MaxShortLen
             /\ _add(m, x)
       /\ Unrecorded
    \/ /\ \E m \in ManagerIds, x \in ObjIds : _delete(m, x)
       /\ Unrecorded
    \/ /\ \E m \in ManagerIds : _clear(m)
       /\ Unrecorded
    \/ /\ \E m \in ManagerIds : Count(m)
       /\ Unrecorded

SpecUnscoped == Init /\ [][NextUnscoped]_vars

-----------------------------------------------------------------------------
(* Claims on the collection of one model *)

\* C1: for a model whose collection was empty, after n _add calls and k
\* _delete calls, each of a stored instance, count() of its Manager is n - k.
C1_CountIsAddsMinusDeletes ==
    \A m \in ManagerIds :
        ~IsRelated(m) => count(m) = adds[StoreKey(m)] - deletes[StoreKey(m)]

\* C1 witness: count() was called after three additions and two deletions
C1_Witness ==
    /\ ret.op = "count"
    /\ adds[StoreKey(ret.mgr)] = 3
    /\ deletes[StoreKey(ret.mgr)] = 2
    /\ ret.val = 1

\* C2: no collection ever holds two entries with the same identity.
C2_NoDuplicateIdentities ==
    \A k \in StoreKeys :
        \A i, j \in 1..Len(store[k]) : i # j => store[k][i] # store[k][j]

\* C8: right after _add(x), x.created = x.updated; and no step ever lowers
\* the created or the updated value of an instance.
C8_StampedEqualAndMonotone ==
    /\ [](ret.op = "_add" => objs[ret.obj].created = objs[ret.obj].updated)
    /\ [][\A x \in ObjIds :
            /\ objs'[x].created >= objs[x].created
            /\ objs'[x].updated >= objs[x].updated]_vars

\* C8 witness: an instance added at time 1 was added again at time 2
C8_Witness ==
    /\ ret.op = "_add"
    /\ now = 2
    /\ objs[ret.obj].created = 2
    /\ objs[ret.obj].updated = 2
    /\ \E k \in StoreKeys :
        /\ Len(store[k]) = 2
        /\ store[k][1] = ret.obj
        /\ store[k][2] = ret.obj
        /\ adds[k] = 2
        /\ \E y \in ObjIds : objs[y].created = 1

\* Whether this step is a call _delete(x) through manager m
DeleteCall(m, x) == ret'.op = "_delete" /\ ret'.mgr = m /\ ret'.obj = x

\* C11: _delete(x), when x is in the collection, removes an entry that is x
\* itself (never an entry that is another instance, equal to x or not) and
\* leaves every other entry in place, in the same relative order.
C11_DeleteRemovesByIdentity ==
    [][\A m \in ManagerIds, x \in ObjIds :
        (DeleteCall(m, x) /\ x \in Range(Manager_store(m))) =>
            /\ ret'.exc = ""
            /\ \E i \in 1..Len(Manager_store(m)) :
                /\ Manager_store(m)[i] = x
                /\ store' = [store EXCEPT ![StoreKey(m)] = RemoveAt(@, i)]]_vars

\* C12: _delete(x), when no entry of the collection is x, fails (ValueError is
\* the error list.remove raises for an absent entry) and leaves the collection
\* as it was.
C12_DeleteAbsentFails ==
    [][\A m \in ManagerIds, x \in ObjIds :
        (DeleteCall(m, x) /\ x \notin Range(Manager_store(m))) =>
            /\ ret'.exc = "ValueError"
            /\ store' = store]_vars

\* Whether every instance that was added was added once: no instance is at
\* two places of the collections
AddedOnce ==
    \A k1, k2 \in StoreKeys :
        \A i \in 1..Len(store[k1]), j \in 1..Len(store[k2]) :
            store[k1][i] = store[k2][j] => (k1 = k2 /\ i = j)

\* C13: in a collection built by _add of distinct instances, with no deletion,
\* first() is the instance added first, last() the one added last and count()
\* the number added, whether or not instances have equal created timestamps.
C13_FirstAndLastFollowInsertion ==
    \A m \in ManagerIds :
        LET s == Manager_store(m) IN
        (~IsRelated(m) /\ AddedOnce /\ Len(s) > 0) =>
            /\ first(m) = s[1]
            /\ last(m) = s[Len(s)]
            /\ count(m) = Len(s)
            /\ (ret.mgr = m /\ ret.op = "first") => ret.val = s[1]
            /\ (ret.mgr = m /\ ret.op = "last") => ret.val = s[Len(s)]
            /\ (ret.mgr = m /\ ret.op = "count") => ret.val = Len(s)

\* C13 witness: last() returned c after a, b and c were added in that order,
\* a and b at one reading of the clock and c at a later one
C13_Witness ==
    /\ ret.op = "last"
    /\ Len(Manager_store(ret.mgr)) = 3
    /\ AddedOnce
    /\ objs[Manager_store(ret.mgr)[1]].name = "a"
    /\ objs[Manager_store(ret.mgr)[2]].name = "b"
    /\ objs[Manager_store(ret.mgr)[3]].name = "c"
    /\ objs[Manager_store(ret.mgr)[1]].created = objs[Manager_store(ret.mgr)[2]].created
    /\ objs[Manager_store(ret.mgr)[2]].created < objs[Manager_store(ret.mgr)[3]].created
    /\ objs[ret.val].name = "c"
    /\ objs[first(ret.mgr)].name = "a"
    /\ count(ret.mgr) = 3

\* Whether the collection of manager m is empty: it holds nothing, or _clear
\* has just been called on it, or every addition to it was deleted again
IsEmpty(m) ==
    \/ Len(Manager_store(m)) = 0
    \/ ret.op = "_clear" /\ ret.mgr = m
    \/ adds[StoreKey(m)] = deletes[StoreKey(m)]

\* The methods of a Manager that return one instance or None
SingleInstanceOps == {"first", "last", "earliest", "latest", "random"}

\* C14: on an empty collection earliest(), latest(), first(), last() and
\* random() return None and raise nothing.
C14_EmptyGivesNone ==
    \A m \in ManagerIds :
        IsEmpty(m) =>
            /\ first(m) = None
            /\ last(m) = None
            /\ \A f \in DateFields : earliest(m, f) = None /\ latest(m, f) = None
            /\ random(m) = {None}
            /\ (ret.mgr = m /\ ret.op \in SingleInstanceOps) =>
                    (ret.exc = "" /\ ret.val = None)

\* C14 witness: latest() returned None on a collection that was populated and
\* then emptied by deleting every instance
C14_Witness ==
    /\ ret.op = "latest"
    /\ ret.exc = ""
    /\ ret.val = None
    /\ Len(Manager_store(ret.mgr)) = 0
    /\ adds[StoreKey(ret.mgr)] = 2
    /\ deletes[StoreKey(ret.mgr)] = 2

\* The Managers (not RelatedManagers) bound to the model class of manager m
SameModel(m) ==
    {n \in ManagerIds : ~IsRelated(n) /\ managers[n].model = managers[m].model}

\* C18: after _clear() through a Manager count() is 0, through it and through
\* every Manager of the same model class; and an _add(x) that follows makes
\* count() 1, with x the one instance that each of these Managers yields.
C18_ClearKeepsCollection ==
    /\ [](\A m \in ManagerIds :
            (ret.op = "_clear" /\ ret.mgr = m /\ ~IsRelated(m)) =>
                \A n \in SameModel(m) : count(n) = 0)
    /\ [][\A m \in ManagerIds, x \in ObjIds :
            (/\ ret.op = "_clear" /\ ret.mgr = m /\ ~IsRelated(m)
             /\ ret'.op = "_add" /\ ret'.mgr = m /\ ret'.obj = x) =>
                \A n \in SameModel(m) :
                    /\ count(n)' = 1
                    /\ Evaluate(all(n))' = <<x>>]_vars

\* C18 witness: x was added through a Manager to a collection that _clear had
\* emptied of another instance, and the Manager cached on the descriptor and
\* two more Managers of the model class each yield x alone
C18_Witness ==
    /\ ret.op = "_add"
    /\ Len(managers) = 3
    /\ SameModel(ret.mgr) = {1, 2, 3}
    /\ descManager["models.Book.objects"] # None
    /\ \A n \in SameModel(ret.mgr) : Evaluate(all(n)) = <<ret.obj>>
    /\ \E y \in ObjIds :
        /\ y # ret.obj
        /\ objs[y].created # 0
        /\ y \notin Range(Manager_store(ret.mgr))

\* The Managers (not RelatedManagers) whose model class has the __name__ of
\* the model class of manager m
SameName(m) ==
    {n \in ManagerIds :
        ~IsRelated(n) /\ TypeName(managers[n].model) = TypeName(managers[m].model)}

\* The calls that write to a collection
MutationOps == {"_add", "_delete", "_clear"}

\* C19: _add, _delete and _clear through the Manager of a model class leave
\* the collection of every model class of another __name__ as it was; the
\* Managers of two model classes of one __name__ read one collection, and an
\* _add through one of them raises count() of the other by 1.
C19_CollectionsKeyedByName ==
    /\ [][\A m \in ManagerIds :
            (ret'.op \in MutationOps /\ ret'.mgr = m) =>
                \A k \in StoreKeys :
                    k # TypeName(managers[m].model) => store'[k] = store[k]]_vars
    /\ [](\A m \in ManagerIds : \A n \in SameName(m) :
            ~IsRelated(m) =>
                /\ Evaluate(all(n)) = Evaluate(all(m))
                /\ count(n) = count(m))
    /\ [][\A m \in ManagerIds :
            (ret'.op = "_add" /\ ret'.mgr = m /\ ~IsRelated(m)) =>
                \A n \in SameName(m) : count(n)' = count(n) + 1]_vars

\* C19 witness: an _add through the Manager of models.Book is counted by the
\* Manager of other.Book, and the collection of models.Novel holds what it
\* held
C19_Witness ==
    /\ ret.op = "_add"
    /\ managers[ret.mgr].model = "models.Book"
    /\ \E n \in ManagerIds :
        /\ managers[n].model = "other.Book"
        /\ count(n) = 1
        /\ Evaluate(all(n)) = <<ret.obj>>
    /\ \E n \in ManagerIds :
        /\ managers[n].model = "models.Novel"
        /\ count(n) = 2

-----------------------------------------------------------------------------
(* Claims on the access descriptors *)

\* C4: the class-only descriptor, accessed via an instance, raises and neither
\* constructs nor caches a Manager; accessed via a class it returns a Manager,
\* constructed and cached on the first such access and the same object on
\* every later one.
C4_ClassOnlyDescriptor ==
    [][ret'.op = "ManagerDescriptor.__get__" =>
        IF ret'.obj # None
        THEN /\ ret'.exc = "AttributeError"
             /\ managers' = managers
             /\ descManager' = descManager
        ELSE /\ ret'.exc = ""
             /\ descManager' = [descManager EXCEPT ![ret'.desc] = ret'.val]
             /\ ~(managers'[ret'.val].owner # NoOwner)
             /\ IF descManager[ret'.desc] = None
                THEN /\ Len(managers') = Len(managers) + 1
                     /\ SubSeq(managers', 1, Len(managers)) = managers
                     /\ ret'.val = Len(managers')
                ELSE /\ managers' = managers
                     /\ ret'.val = descManager[ret'.desc]]_vars

\* C4 witness: after the descriptors of two classes each constructed their
\* Manager on a first access via the class, a later access via the class
\* returned the Manager cached on its descriptor, constructing nothing
C4_Witness ==
    /\ ret.op = "ManagerDescriptor.__get__"
    /\ ret.obj = None
    /\ ret.cls = "other.Book"
    /\ ret.val = 2
    /\ descManager["other.Book.objects"] = 2
    /\ descManager["models.Book.objects"] = 1
    /\ Len(managers) = 3
    /\ managers[3].owner # NoOwner

\* C5: the Manager a class-side access returns for model class M is bound to
\* M: its model is M and the collection it reads and writes is M's.
C5_ManagerBoundToAccessingModel ==
    (ret.op = "ManagerDescriptor.__get__" /\ ret.exc = "")
        => /\ managers[ret.val].model = ret.cls
           /\ StoreKey(ret.val) = TypeName(ret.cls)

-----------------------------------------------------------------------------
(* Claims on the RelatedManager *)

\* Whether the foreign key of instance o, for the class of owner, is owner
OwnedBy(o, owner) ==
    CASE owner.type = "models.Author" -> o.author = owner.pk
      [] owner.type = "models.Editor" -> o.editor = owner.pk
      [] OTHER -> FALSE

\* The entries of the collection of manager m that are related to its owner
Related(m) ==
    SelectSeq(Manager_store(m), LAMBDA i : OwnedBy(objs[i], managers[m].owner))

\* A query over a list that holds the entries related to the owner of m only
OverRelated(m) ==
    [key |-> "", live |-> FALSE, items |-> Related(m),
     model |-> managers[m].model, filters |-> <<>>]

\* C7: every read operation of a RelatedManager gives what it gives on a
\* collection holding only the instances whose foreign key is the owner, and
\* never returns or counts an instance related to another owner.
C7_RelatedReadsAreScoped ==
    /\ (ret.op = "count" /\ IsRelated(ret.mgr))
            => ret.val = Len(Related(ret.mgr))
    /\ \A m \in ManagerIds : IsRelated(m) =>
        LET mine == Range(Related(m)) IN
        /\ Evaluate(all(m)) = Related(m)
        /\ count(m) = Len(Related(m))
        /\ \A kw \in KwArgs :
            /\ Evaluate(filter(m, kw)) = Evaluate(QuerySet_filter(OverRelated(m), kw))
            /\ Range(Evaluate(filter(m, kw))) \subseteq mine
            /\ Evaluate(exclude(m, kw)) = Evaluate(QuerySet_exclude(OverRelated(m), kw))
            /\ Range(Evaluate(exclude(m, kw))) \subseteq mine
            /\ get(m, kw) = QuerySet_get(OverRelated(m), kw)
            /\ get(m, kw).val \in mine \cup {None}
        /\ first(m) = QuerySet_earliest(OverRelated(m), "created")
        /\ last(m) = QuerySet_latest(OverRelated(m), "created")
        /\ {first(m), last(m)} \subseteq mine \cup {None}
        /\ \A f \in DateFields :
            /\ earliest(m, f) = QuerySet_earliest(OverRelated(m), f)
            /\ latest(m, f) = QuerySet_latest(OverRelated(m), f)
            /\ {earliest(m, f), latest(m, f)} \subseteq mine \cup {None}
        /\ random(m) = QuerySet_random(OverRelated(m))
        /\ random(m) \subseteq mine \cup {None}

\* C7 witness: the RelatedManager of an owner counted one instance in a
\* collection that also holds an instance of the same name related to
\* another owner
C7_Witness ==
    /\ ret.op = "count"
    /\ IsRelated(ret.mgr)
    /\ ret.val = 1
    /\ Len(Manager_store(ret.mgr)) = 2
    /\ objs[Manager_store(ret.mgr)[1]].name = objs[Manager_store(ret.mgr)[2]].name
    /\ objs[Manager_store(ret.mgr)[1]].author # managers[ret.mgr].owner.pk
    /\ objs[Manager_store(ret.mgr)[1]].author # NoValue
    /\ objs[Manager_store(ret.mgr)[2]].author = managers[ret.mgr].owner.pk

\* C20: _clear() on the RelatedManager of an owner empties the whole
\* collection of the related model, instances related to other owners
\* included; _add(x) on it appends x to that collection and leaves the fields
\* of x as they are, and count() of the RelatedManager rises, by 1, exactly
\* when the foreign key of x is the owner already.
C20_RelatedMutationsUnscoped ==
    [][\A m \in ManagerIds :
        IsRelated(m) =>
            /\ (ret'.op = "_clear" /\ ret'.mgr = m) =>
                    store' = [store EXCEPT ![StoreKey(m)] = <<>>]
            /\ \A x \in ObjIds :
                (ret'.op = "_add" /\ ret'.mgr = m /\ ret'.obj = x) =>
                    /\ store' = [store EXCEPT ![StoreKey(m)] = Append(@, x)]
                    /\ Fields(objs'[x]) = Fields(objs[x])
                    /\ count(m)' = count(m) +
                            IF OwnedBy(objs[x], managers[m].owner) THEN 1 ELSE 0]_vars

\* C20 witness: _add(x) on the RelatedManager of an owner appended an x whose
\* foreign key is another owner to the collection, which holds an instance of
\* the owner, and count() of the RelatedManager is still 1
C20_Witness ==
    /\ ret.op = "_add"
    /\ IsRelated(ret.mgr)
    /\ objs[ret.obj].author # managers[ret.mgr].owner.pk
    /\ objs[ret.obj].author # NoValue
    /\ Len(Manager_store(ret.mgr)) = 2
    /\ Manager_store(ret.mgr)[2] = ret.obj
    /\ OwnedBy(objs[Manager_store(ret.mgr)[1]], managers[ret.mgr].owner)
    /\ count(ret.mgr) = 1

-----------------------------------------------------------------------------
(* Claims on kept QuerySets *)

\* Query q over a private list with the given entries instead of its collection
Over(q, entries) == [q EXCEPT !.live = FALSE, !.items = entries]

\* The outcome of the last call, as a record of exception and value
Outcome == [exc |-> ret.exc, val |-> ret.val]

\* C3: a terminal operation on a QuerySet obtained from a manager gives the
\* result for the collection as it is when the operation is called, whatever
\* the collection held when the QuerySet was built.
C3_QueryReadsCollectionAtCallTime ==
    /\ \A n \in QueryIds :
        LET q == queries[n].qs
            atCall == Over(q, store[q.key])
        IN  /\ Evaluate(q) = Evaluate(atCall)
            /\ QuerySet_count(q) = QuerySet_count(atCall)
            /\ QuerySet_earliest(q, "created") = QuerySet_earliest(atCall, "created")
            /\ \A kw \in KwArgs : QuerySet_get(q, kw) = QuerySet_get(atCall, kw)
    /\ ret.query \in QueryIds =>
        LET q == queries[ret.query].qs
            atCall == Over(q, store[q.key])
        IN  /\ ret.op = "QuerySet.count" =>
                ret.val = QuerySet_count(atCall)
            /\ ret.op = "QuerySet.get" =>
                Outcome = QuerySet_get(atCall, ret.kw)
            /\ ret.op = "QuerySet.earliest" =>
                ret.val = QuerySet_earliest(atCall, "created")
            /\ ret.op = "QuerySet.__iter__" =>
                ret.items = Evaluate(atCall)

\* C3 witness: count() of a kept QuerySet returned 1 although the collection
\* was empty when the manager built the QuerySet
C3_Witness ==
    /\ ret.op = "QuerySet.count"
    /\ ret.val = 1
    /\ queries[ret.query].seen = 0
    /\ queries[ret.query].qs.filters # <<>>
    /\ Len(store[queries[ret.query].qs.key]) = 1

\* C17: the query none() returns yields no instance when it is iterated,
\* whatever the collection holds then, instances added after the call of
\* none() included.
C17_NoneIsAlwaysEmpty ==
    /\ \A m \in ManagerIds :
        /\ Evaluate(none(m)) = <<>>
        /\ QuerySet_count(none(m)) = 0
    /\ ret.op = "none" => Evaluate(ret.qs) = <<>>
    /\ \A n \in QueryIds :
        queries[n].qs.key = "" =>
            /\ Evaluate(queries[n].qs) = <<>>
            /\ (ret.query = n /\ ret.op = "QuerySet.__iter__") => ret.items = <<>>
            /\ (ret.query = n /\ ret.op = "QuerySet.count") => ret.val = 0

\* C17 witness: a query that none() returned on an empty collection yielded
\* nothing when it was iterated after two instances had been added
C17_Witness ==
    /\ ret.op = "QuerySet.__iter__"
    /\ ret.items = <<>>
    /\ queries[ret.query].qs.key = ""
    /\ queries[ret.query].seen = 0
    /\ Len(store["Book"]) = 2
    /\ store["Book"][1] # store["Book"][2]

-----------------------------------------------------------------------------
(* Claims on get, get_or_create, the membership test and the reading methods *)

\* The entries of the collection of manager m that m is to see: all of them
\* for a Manager, those related to the owner for a RelatedManager
InScope(m) == IF IsRelated(m) THEN Related(m) ELSE Manager_store(m)

\* Whether no entry that manager m is to see satisfies kw
NoStoredMatch(m, kw) == \A i \in Range(InScope(m)) : ~Matches(objs[i], kw)

\* Whether an instance constructed from kw and dflt is one that m is to see
CreatedInScope(m, kw, dflt) ==
    IsRelated(m) => OwnedBy(Merged(kw, dflt), managers[m].owner)

\* Whether this step is a call of get_or_create with no stored match
FirstCreateCall ==
    /\ ret'.op = "get_or_create"
    /\ NoStoredMatch(ret'.mgr, ret'.kw)

\* Whether this step is a call of get_or_create that repeats, with the same
\* arguments on the same manager, the call before it, which created
SecondCreateCall ==
    /\ ret.op = "get_or_create"
    /\ ret.flag
    /\ ret'.op = "get_or_create"
    /\ ret'.mgr = ret.mgr
    /\ ret'.kw = ret.kw
    /\ ret'.dflt = ret.dflt

\* What C9 says of a first call: it reports created, and count() is 1 higher
FirstCallCreates ==
    /\ ret'.exc = ""
    /\ ret'.flag
    /\ \A m \in ManagerIds : m = ret'.mgr => count(m)' = count(m) + 1

\* What C9 says of the second call: the same instance, not created, and
\* count() as after the first call
SecondCallFinds ==
    /\ ret'.exc = ""
    /\ ~ret'.flag
    /\ ret'.val = ret.val
    /\ \A m \in ManagerIds : m = ret'.mgr => count(m)' = count(m)

MatchingEntries(m, kw) ==
    {i \in 1..Len(InScope(m)) : Matches(objs[InScope(m)[i]], kw)}

\* C15: get(**kw) fails with DoesNotExist when no stored instance matches kw,
\* with MultipleObjectsReturned when more than one does, and returns the
\* matching instance when exactly one does; no call of get changes a
\* collection.
C15_GetOutcomes ==
    /\ [](\A m \in ManagerIds, kw \in KwArgs :
            LET found == MatchingEntries(m, kw)
                expected ==
                    IF found = {} THEN [exc |-> "DoesNotExist", val |-> None]
                    ELSE IF Cardinality(found) > 1
                    THEN [exc |-> "MultipleObjectsReturned", val |-> None]
                    ELSE [exc |-> "",
                          val |-> InScope(m)[CHOOSE i \in found : TRUE]]
            IN  /\ get(m, kw) = expected
                /\ (ret.op = "get" /\ ret.mgr = m /\ ret.kw = kw)
                        => Outcome = expected)
    /\ [][ret'.op = "get" => store' = store]_vars

\* C15 witness: get(name=a) failed with MultipleObjectsReturned on a
\* collection that holds two instances named a
C15_Witness ==
    /\ ret.op = "get"
    /\ ~IsRelated(ret.mgr)
    /\ ret.exc = "MultipleObjectsReturned"
    /\ Len(Manager_store(ret.mgr)) = 2
    /\ Manager_store(ret.mgr)[1] # Manager_store(ret.mgr)[2]
    /\ \A i \in 1..2 : objs[Manager_store(ret.mgr)[i]].name = ret.kw["name"]

\* The reading methods of a Manager, by the name of the call
ReadOps ==
    {"all", "count", "filter", "exclude", "get", "first", "last", "earliest",
     "latest", "random", "none", "__contains__"}

\* C16: no call of a reading method, whether it returns or raises, changes a
\* collection: the same entries in the same order after it as before it.
C16_ReadsLeaveStore ==
    [][ret'.op \in ReadOps => (store' = store /\ objs' = objs)]_vars

\* C16 witness: the membership test raised for a name that neither of the
\* two entries of the collection has, and the two entries are still there
C16_Witness ==
    /\ ret.op = "__contains__"
    /\ ret.exc = "DoesNotExist"
    /\ Len(Manager_store(ret.mgr)) = 2
    /\ objs[Manager_store(ret.mgr)[1]].name # ret.kw["name"]
    /\ objs[Manager_store(ret.mgr)[2]].name # ret.kw["name"]

\* C10: the membership test returns a boolean for every item: true when
\* get(name=item) returns an instance, false otherwise.
C10_ContainsReturnsBoolean ==
    ret.op = "__contains__" =>
        /\ ret.exc = ""
        /\ ret.flag <=> (get(ret.mgr, ret.kw).exc = "")

====
